---------------------------- MODULE Spec2Model ----------------------------
(***************************************************************************)
(* A model of tglib/path.py: the PathIterator class (construction, the     *)
(* three filter wrappers, the __iter__ generator and traverse()).          *)
(*                                                                         *)
(* Python strings are modelled as sequences of one-character strings, so   *)
(* that str.count, str.lower, str.lstrip, os.path.join, os.path.normpath,  *)
(* os.path.split and os.path.splitext are computed character by character  *)
(* as the (POSIX) library computes them.                                   *)
(***************************************************************************)
EXTENDS Integers, Sequences, FiniteSets, TLC

VARIABLES
    cfg,        \* the arguments given to PathIterator(...)
    pc,         \* "new", "failed", "ready", "iter", "done", "raised"
    self,       \* the constructed object's fields (NoObj before/without construction)
    err,        \* the exception that ended construction or iteration, or "none"
    handlers,   \* traverse()'s arguments: which of handler_file / handler_dir are supplied
    ri,         \* __iter__: index in self.paths of the root being processed (0: none yet)
    root,       \* __iter__: the local `root` (normalized) of the current root
    level_root, \* __iter__: the local `level_root`
    walk,       \* __iter__: the (dir_path, dirs, files) triples os.walk has still to deliver
    fi,         \* __iter__: 0 = the head triple's directory is still to be checked,
                \*           j > 0 = its j-th file is the next to be examined
    results,    \* every item yielded so far, tagged with the index of its root
    calls,      \* every handler invocation made by traverse(), in order
    ext_probe   \* the last direct call of self.f_file_ext: <<extension, answer>>, or <<>>

vars == <<cfg, pc, self, err, handlers, ri, root, level_root, walk, fi,
          results, calls, ext_probe>>

-----------------------------------------------------------------------------
(* Bounds of the model *)

\* the longest `paths` list given to the constructor
MaxPaths == 2

\* the largest `level` given to the constructor (the smallest is -MaxLevel)
MaxLevel == 2

\* the longest collection given as filter_file_extensions
MaxItems == 2

-----------------------------------------------------------------------------
(* Python values *)

NoObj == [constructed |-> FALSE]

\* the characters that occur
SEP == "/"
DOT == "."

\* str.lower(), per character
LowerChar(c) ==
    CASE c = "T" -> "t"
      [] c = "X" -> "x"
      [] c = "M" -> "m"
      [] c = "D" -> "d"
      [] OTHER -> c

Lower(s) == [i \in 1..Len(s) |-> LowerChar(s[i])]

\* str.lstrip(ch)
RECURSIVE LStrip(_, _)
LStrip(s, ch) ==
    IF s # <<>> /\ Head(s) = ch THEN LStrip(Tail(s), ch) ELSE s

\* str.rstrip(ch)
RECURSIVE RStrip(_, _)
RStrip(s, ch) ==
    IF s # <<>> /\ s[Len(s)] = ch THEN RStrip(SubSeq(s, 1, Len(s) - 1), ch) ELSE s

\* str.count(ch)
Count(s, ch) == Cardinality({i \in 1..Len(s) : s[i] = ch})

\* str.rfind(ch) + 1: the 1-based position of the last ch, 0 when there is none
RFind(s, ch) ==
    LET at == {i \in 1..Len(s) : s[i] = ch}
    IN  IF at = {} THEN 0 ELSE CHOOSE i \in at : \A k \in at : k <= i

\* str.startswith(p)
StartsWith(s, p) == Len(p) <= Len(s) /\ SubSeq(s, 1, Len(p)) = p

\* str.split(ch)
RECURSIVE SplitAt(_, _)
SplitAt(s, ch) ==
    LET at == {i \in 1..Len(s) : s[i] = ch}
    IN  IF at = {} THEN <<s>>
        ELSE LET i == CHOOSE k \in at : \A m \in at : k <= m
             IN  <<SubSeq(s, 1, i - 1)>> \o SplitAt(SubSeq(s, i + 1, Len(s)), ch)

\* ch.join(parts)
RECURSIVE JoinWith(_, _)
JoinWith(parts, ch) ==
    IF parts = <<>> THEN <<>>
    ELSE IF Len(parts) = 1 THEN parts[1]
    ELSE parts[1] \o <<ch>> \o JoinWith(Tail(parts), ch)

-----------------------------------------------------------------------------
(* os.path *)

\* os.path.join(a, b)
join(a, b) ==
    IF StartsWith(b, <<SEP>>) THEN b
    ELSE IF a = <<>> \/ a[Len(a)] = SEP THEN a \o b
    ELSE a \o <<SEP>> \o b

\* the component loop of os.path.normpath
RECURSIVE NormComps(_, _, _)
NormComps(comps, new_comps, initial_slashes) ==
    IF comps = <<>> THEN new_comps
    ELSE LET comp == Head(comps)
             DD   == <<DOT, DOT>>
         IN  IF comp = <<>> \/ comp = <<DOT>>
             THEN NormComps(Tail(comps), new_comps, initial_slashes)
             ELSE IF \/ comp # DD
                     \/ (initial_slashes = 0 /\ new_comps = <<>>)
                     \/ (new_comps # <<>> /\ new_comps[Len(new_comps)] = DD)
             THEN NormComps(Tail(comps), Append(new_comps, comp), initial_slashes)
             ELSE IF new_comps # <<>>
             THEN NormComps(Tail(comps), SubSeq(new_comps, 1, Len(new_comps) - 1),
                            initial_slashes)
             ELSE NormComps(Tail(comps), new_comps, initial_slashes)

\* os.path.normpath(path)
normpath(path) ==
    IF path = <<>> THEN <<DOT>>
    ELSE LET initial_slashes ==
                 IF ~StartsWith(path, <<SEP>>) THEN 0
                 ELSE IF StartsWith(path, <<SEP, SEP>>) /\ ~StartsWith(path, <<SEP, SEP, SEP>>)
                 THEN 2 ELSE 1
             comps == NormComps(SplitAt(path, SEP), <<>>, initial_slashes)
             p     == [i \in 1..initial_slashes |-> SEP] \o JoinWith(comps, SEP)
         IN  IF p = <<>> THEN <<DOT>> ELSE p

\* os.path.split(p)
split(p) ==
    LET i    == RFind(p, SEP)
        head == SubSeq(p, 1, i)
        tail == SubSeq(p, i + 1, Len(p))
    IN  IF head # <<>> /\ head # [k \in 1..Len(head) |-> SEP]
        THEN <<RStrip(head, SEP), tail>>
        ELSE <<head, tail>>

\* os.path.splitext(p)[1]: the last dot starts the extension unless only dots
\* stand between the last separator and it
splitext1(p) ==
    LET sepIndex == RFind(p, SEP)
        dotIndex == RFind(p, DOT)
    IN  IF dotIndex > sepIndex
           /\ \E k \in (sepIndex + 1)..(dotIndex - 1) : p[k] # DOT
        THEN SubSeq(p, dotIndex, Len(p))
        ELSE <<>>

-----------------------------------------------------------------------------
(* The file system the iteration reads: the tree                           *)
(*     /r/a.txt   /r/b.md   /r/s/c.TXT   /r/s/d/e.txt                       *)
(* with /r the working directory.  A node is named by the sequence of the  *)
(* names on the way from "/" to it.                                        *)

NameR == <<"r">>
NameS == <<"s">>
NameD == <<"d">>
NameA == <<"a", ".", "t", "x", "t">>
NameB == <<"b", ".", "m", "d">>
NameC == <<"c", ".", "T", "X", "T">>
NameE == <<"e", ".", "t", "x", "t">>

CwdPath == <<SEP>> \o NameR

FsDirs == {<<>>, <<NameR>>, <<NameR, NameS>>, <<NameR, NameS, NameD>>}

FsFiles == {<<NameR, NameA>>, <<NameR, NameB>>, <<NameR, NameS, NameC>>, <<NameR, NameS, NameD, NameE>>}

\* os.scandir(d): the entries of directory node d, in the order the OS lists them
scandir(d) ==
    CASE d = <<>> -> <<[name |-> NameR, is_dir |-> TRUE]>>
      [] d = <<NameR>> -> <<[name |-> NameA, is_dir |-> FALSE],
                            [name |-> NameS, is_dir |-> TRUE],
                            [name |-> NameB, is_dir |-> FALSE]>>
      [] d = <<NameR, NameS>> -> <<[name |-> NameD, is_dir |-> TRUE],
                                   [name |-> NameC, is_dir |-> FALSE]>>
      [] d = <<NameR, NameS, NameD>> -> <<[name |-> NameE, is_dir |-> FALSE]>>
      [] OTHER -> <<>>

\* the node a path string names: relative paths start at the working directory,
\* empty and "." components are skipped, ".." goes up, "//" is "/"
Resolve(p) == NormComps(SplitAt(join(CwdPath, p), SEP), <<>>, 1)

\* os.path.isdir(p)
isdir(p) == Resolve(p) \in FsDirs

\* os.path.exists(p)
exists(p) == Resolve(p) \in FsDirs \cup FsFiles

IsDirEntry(e) == e.is_dir
IsFileEntry(e) == ~e.is_dir
EntryNames(es) == [i \in 1..Len(es) |-> es[i].name]

\* os.walk(top), top-down: (dir_path, dirs, files) of top, then of each
\* subdirectory's walk in listing order
RECURSIVE os_walk(_)
RECURSIVE WalkEach(_, _)
os_walk(top) ==
    LET entries == scandir(Resolve(top))
        dirs    == EntryNames(SelectSeq(entries, IsDirEntry))
        files   == EntryNames(SelectSeq(entries, IsFileEntry))
    IN  <<[dir_path |-> top, dirs |-> dirs, files |-> files]>> \o WalkEach(top, dirs)
WalkEach(top, dirs) ==
    IF dirs = <<>> THEN <<>>
    ELSE os_walk(join(top, Head(dirs))) \o WalkEach(top, Tail(dirs))

-----------------------------------------------------------------------------
(* Python objects given as filters.  Every object is a record with its     *)
(* type in field t.                                                        *)

PyNone == [t |-> "NoneType"]
PyInt(n) == [t |-> "int", v |-> n]
PyBytes == [t |-> "bytes"]
PyStr(v) == [t |-> "str", v |-> v]
PyList(v) == [t |-> "list", v |-> v]
\* a predicate function, given by the set of arguments it answers True to
PyFunc(accepts) == [t |-> "function", accepts |-> accepts]
\* re.compile(lit) when lead is FALSE, re.compile(".+" + lit + ".+") when TRUE,
\* lit free of metacharacters
PyPattern(lead, lit) == [t |-> "Pattern", lead |-> lead, lit |-> lit]

IsIterable(obj) == obj.t \in {"str", "list", "bytes"}
IsCallable(obj) == obj.t = "function"

Ok(v) == [ok |-> TRUE, v |-> v]
Raise(e) == [ok |-> FALSE, err |-> e]

\* pattern.match(s): the pattern matches a prefix of s
PatMatch(pat, s) ==
    IF pat.lead
    THEN \E i \in 2..Len(s) :
            /\ i + Len(pat.lit) - 1 < Len(s)
            /\ SubSeq(s, i, i + Len(pat.lit) - 1) = pat.lit
    ELSE StartsWith(s, pat.lit)

\* _ext without lower()
ExtMutNoLower(ext) == LStrip(ext, DOT)
\* PathIterator._ext on a str
Ext(ext) == LStrip(Lower(ext), DOT)

\* PathIterator._ext on any object: ext.lower().lstrip('.')
ExtObj(obj) ==
    CASE obj.t = "str" -> Ok(PyStr(Ext(obj.v)))
      [] obj.t = "bytes" -> Raise("TypeError")         \* bytes.lstrip(str)
      [] OTHER -> Raise("AttributeError")              \* no attribute 'lower'

\* [self._ext(ext) for ext in filter_obj]: the first element that raises ends it
RECURSIVE ExtEach(_)
ExtEach(items) ==
    IF items = <<>> THEN Ok(<<>>)
    ELSE LET h == ExtObj(Head(items))
         IN  IF ~h.ok THEN h
             ELSE LET r == ExtEach(Tail(items))
                  IN  IF ~r.ok THEN r ELSE Ok(<<h.v>> \o r.v)

AllOfType(items, ty) == \A i \in 1..Len(items) : items[i].t = ty

\* the members of a list of str objects
StrValues(items) == {items[i].v : i \in 1..Len(items)}

\* PathIterator._wrapper_filter_extension: the closure returned, or the exception
wrapper_filter_extension(filter_obj) ==
    IF filter_obj.t = "str"
    THEN Ok([k |-> "eq", v |-> Ext(filter_obj.v)])
    ELSE IF IsIterable(filter_obj)
    THEN LET items == IF filter_obj.t = "list" THEN ExtEach(filter_obj.v)
                      ELSE Raise("AttributeError")    \* iterating bytes gives ints
         IN  IF ~items.ok THEN items
             ELSE IF Len(items.v) > 0 /\ AllOfType(items.v, "str")
             THEN Ok([k |-> "in", v |-> StrValues(items.v)])
             ELSE Raise("TypeError")
    ELSE IF IsCallable(filter_obj)
    THEN Ok([k |-> "fn", accepts |-> filter_obj.accepts])
    ELSE IF filter_obj.t = "NoneType"
    THEN Ok([k |-> "true"])
    ELSE Raise("TypeError")

\* calling the closure _wrapper_filter_extension returned
CallExt(flt, fn_ext) ==
    CASE flt.k = "eq" -> Ext(fn_ext) = flt.v
      [] flt.k = "in" -> Ext(fn_ext) \in flt.v
      [] flt.k = "fn" -> fn_ext \in flt.accepts
      [] OTHER -> TRUE

\* PathIterator._wrapper_filter_pattern: the closure returned, or the exception
wrapper_filter_pattern(filter_obj) ==
    IF filter_obj.t = "Pattern"
    THEN Ok([k |-> "match", v |-> filter_obj])
    ELSE IF IsIterable(filter_obj)
    THEN IF filter_obj.t = "list" /\ Len(filter_obj.v) > 0
            /\ AllOfType(filter_obj.v, "Pattern")
         THEN Ok([k |-> "any", v |-> filter_obj.v])
         ELSE Raise("TypeError")
    ELSE IF IsCallable(filter_obj)
    THEN Ok([k |-> "fn", accepts |-> filter_obj.accepts])
    ELSE IF filter_obj.t = "NoneType"
    THEN Ok([k |-> "true"])
    ELSE Raise("TypeError")

\* calling the closure _wrapper_filter_pattern returned
CallName(flt, fn) ==
    CASE flt.k = "match" -> PatMatch(flt.v, fn)
      [] flt.k = "any" -> \E i \in 1..Len(flt.v) : PatMatch(flt.v[i], fn)
      [] flt.k = "fn" -> fn \in flt.accepts
      [] OTHER -> TRUE

\* __init__ without its assert
LevelOkMutNoAssert(level) == TRUE
\* the assert that ends __init__
LevelOk(level) == level.t = "NoneType" \/ level.v > 0

\* PathIterator.__init__: the object's fields, or the exception raised
init(c) ==
    LET paths == IF c.paths.t = "str" THEN <<c.paths.v>> ELSE c.paths.v
        fext  == wrapper_filter_extension(c.filter_file_extensions)
        ffile == wrapper_filter_pattern(c.filter_file_name)
        fdir  == wrapper_filter_pattern(c.filter_dir_name)
    IN  IF ~fext.ok THEN fext
        ELSE IF ~ffile.ok THEN ffile
        ELSE IF ~fdir.ok THEN fdir
        ELSE IF ~LevelOk(c.level) THEN Raise("AssertionError")
        ELSE Ok([constructed     |-> TRUE,
                 paths           |-> [i \in 1..Len(paths) |-> normpath(join(c.root, paths[i]))],
                 level           |-> c.level,
                 root            |-> normpath(c.root),
                 f_file_ext      |-> fext.v,
                 f_file_name     |-> ffile.v,
                 f_dir_name      |-> fdir.v,
                 raise_not_found |-> c.raise_not_found,
                 yield_dir       |-> c.yield_dir])

-----------------------------------------------------------------------------
(* __iter__ and traverse *)

\* "Check directory level": the directory is passed over
LevelSkips(level, lroot, dir_path) ==
    level.t # "NoneType" /\ Count(dir_path, SEP) >= lroot + level.v

\* the walk without "Check directory name"
DirAcceptedMutAlways(obj, dir_path) == TRUE
\* "Check directory name"
DirAccepted(obj, dir_path) == CallName(obj.f_dir_name, dir_path)

\* directories yielded whatever yield_dir is
YieldsDirMutAlways(obj) == TRUE
\* `if self.yield_dir`
YieldsDir(obj) == obj.yield_dir

\* the test on a file of a walked directory
FileAccepted(obj, file) ==
    CallName(obj.f_file_name, file) /\ CallExt(obj.f_file_ext, splitext1(file))

\* the test on a root that is not a directory, f_dir_name left out
FileRootAcceptedMutNoDir(obj, dir_path, file) ==
    CallName(obj.f_file_name, file) /\ CallExt(obj.f_file_ext, splitext1(file))
\* the test on a root that is not a directory
FileRootAccepted(obj, dir_path, file) ==
    /\ CallName(obj.f_dir_name, dir_path)
    /\ CallName(obj.f_file_name, file)
    /\ CallExt(obj.f_file_ext, splitext1(file))

\* the items yielded: (dir_path, None) and (dir_path, file)
DirItem(r, dir_path) == [root |-> r, dir |-> dir_path, file |-> PyNone]
FileItem(r, dir_path, file) == [root |-> r, dir |-> dir_path, file |-> PyStr(file)]

\* traverse()'s loop body with the two handlers exchanged
DispatchMutSwap(item, h) ==
    IF item.file.t = "NoneType"
    THEN IF h.file THEN <<[handler |-> "file", args |-> <<item.dir>>]>> ELSE <<>>
    ELSE IF h.dir THEN <<[handler |-> "dir", args |-> <<item.dir, item.file.v>>]>> ELSE <<>>
\* the body of traverse()'s loop: the handler calls made for one item
Dispatch(item, h) ==
    IF item.file.t = "NoneType"
    THEN IF h.dir THEN <<[handler |-> "dir", args |-> <<item.dir>>]>> ELSE <<>>
    ELSE IF h.file THEN <<[handler |-> "file", args |-> <<item.dir, item.file.v>>]>>
         ELSE <<>>

\* a yield, and traverse()'s loop body run on the item before the generator resumes
Emit(item) ==
    /\ results' = Append(results, item)
    /\ calls' = calls \o Dispatch(item, handlers)

NoEmit == UNCHANGED <<results, calls>>

\* PathIterator(...)
Construct ==
    /\ pc = "new"
    /\ LET r == init(cfg)
       IN  IF r.ok
           THEN pc' = "ready" /\ self' = r.v /\ err' = "none"
           ELSE pc' = "failed" /\ self' = NoObj /\ err' = r.err
    /\ UNCHANGED <<cfg, handlers, ri, root, level_root, walk, fi, results, calls, ext_probe>>

\* traverse(handler_file, handler_dir) is called, each handler given or left None
Traverse(hf, hd) ==
    /\ pc = "ready"
    /\ ext_probe = <<>>
    /\ pc' = "iter"
    /\ handlers' = [file |-> hf, dir |-> hd]
    /\ UNCHANGED <<cfg, self, err, ri, root, level_root, walk, fi, results, calls, ext_probe>>

\* `for root in self.paths`: the next root, up to the walk of a directory root
\* or through the whole branch of a root that is not a directory
NextRoot ==
    /\ pc = "iter"
    /\ walk = <<>>
    /\ ri < Len(self.paths)
    /\ ri' = ri + 1
    /\ LET rt == normpath(self.paths[ri + 1])
       IN  /\ root' = rt
           /\ IF isdir(rt)
              THEN IF self.raise_not_found /\ ~exists(rt)
                   THEN /\ pc' = "raised"
                        /\ err' = "FileNotFoundError"
                        /\ UNCHANGED <<level_root, walk, fi, results, calls>>
                   ELSE /\ level_root' = Count(rt, SEP)
                        /\ walk' = os_walk(rt)
                        /\ fi' = 0
                        /\ UNCHANGED <<pc, err, results, calls>>
              ELSE /\ LET dir_path == split(rt)[1]
                          file     == split(rt)[2]
                      IN  IF FileRootAccepted(self, dir_path, file)
                          THEN Emit(FileItem(ri + 1, dir_path, file))
                          ELSE NoEmit
                   /\ UNCHANGED <<pc, err, level_root, walk, fi>>
    /\ UNCHANGED <<cfg, self, handlers, ext_probe>>

\* one (dir_path, dirs, files) of os.walk, up to the loop over its files
VisitDir ==
    /\ pc = "iter"
    /\ walk # <<>>
    /\ fi = 0
    /\ LET w == Head(walk)
       IN  IF LevelSkips(self.level, level_root, w.dir_path)
              \/ ~DirAccepted(self, w.dir_path)
           THEN /\ walk' = Tail(walk)
                /\ fi' = 0
                /\ NoEmit
           ELSE /\ IF YieldsDir(self) THEN Emit(DirItem(ri, w.dir_path)) ELSE NoEmit
                /\ IF w.files = <<>>
                   THEN walk' = Tail(walk) /\ fi' = 0
                   ELSE walk' = walk /\ fi' = 1
    /\ UNCHANGED <<cfg, pc, self, err, handlers, ri, root, level_root, ext_probe>>

\* `for file in files`: one file of the directory
VisitFile ==
    /\ pc = "iter"
    /\ walk # <<>>
    /\ fi > 0
    /\ LET w    == Head(walk)
           file == w.files[fi]
       IN  /\ IF FileAccepted(self, file)
              THEN Emit(FileItem(ri, w.dir_path, file))
              ELSE NoEmit
           /\ IF fi = Len(w.files)
              THEN walk' = Tail(walk) /\ fi' = 0
              ELSE walk' = walk /\ fi' = fi + 1
    /\ UNCHANGED <<cfg, pc, self, err, handlers, ri, root, level_root, ext_probe>>

\* the generator is exhausted and traverse() returns
Finish ==
    /\ pc = "iter"
    /\ walk = <<>>
    /\ ri = Len(self.paths)
    /\ pc' = "done"
    /\ UNCHANGED <<cfg, self, err, handlers, ri, root, level_root, walk, fi,
                   results, calls, ext_probe>>

\* self.f_file_ext(e) called on its own
ProbeExt(e) ==
    /\ pc = "ready"
    /\ ext_probe' = <<e, CallExt(self.f_file_ext, e)>>
    /\ UNCHANGED <<cfg, pc, self, err, handlers, ri, root, level_root, walk, fi,
                   results, calls>>

-----------------------------------------------------------------------------
(* Inputs *)

PathDot == <<DOT>>
PathSlash == <<SEP>>
PathDotS == <<DOT, SEP>> \o NameS
PathA == NameA
PathM == <<"m">>

\* the roots given: the working directory, the file-system root, a subdirectory
\* (not normalized), a plain file and a path that does not exist
RootPool == {PathDot, PathSlash, PathDotS, PathA, PathM}

PathLists == UNION {[1..n -> RootPool] : n \in 1..MaxPaths}

PathsArgs == {PyStr(PathDot)} \cup {PyList(l) : l \in PathLists}

Txt == <<"t", "x", "t">>
Md == <<"m", "d">>

\* re.compile(r'.+s.+'), the shape of general_test's directory filter
PatSub == PyPattern(TRUE, NameS)
\* re.compile('c')
PatC == PyPattern(FALSE, <<"c">>)

Levels(lo) == {PyNone} \cup {PyInt(n) : n \in lo..MaxLevel}

Arguments(paths, level, rt, fext, ffile, fdir, rnf, yd) ==
    [paths |-> paths, level |-> level, root |-> rt,
     filter_file_extensions |-> fext, filter_file_name |-> ffile,
     filter_dir_name |-> fdir, raise_not_found |-> rnf, yield_dir |-> yd]

WalkConfigs ==
    {Arguments(p, l, rt, fe, ff, fd, rnf, yd) :
        p \in PathsArgs, l \in Levels(-MaxLevel), rt \in {<<>>, CwdPath},
        fe \in {PyNone, PyStr(Txt)}, ff \in {PyNone, PatC}, fd \in {PyNone, PatSub},
        rnf \in BOOLEAN, yd \in BOOLEAN}

Start(configs) ==
    /\ cfg \in configs
    /\ pc = "new"
    /\ self = NoObj
    /\ err = "none"
    /\ handlers = [file |-> FALSE, dir |-> FALSE]
    /\ ri = 0
    /\ root = <<>>
    /\ level_root = 0
    /\ walk = <<>>
    /\ fi = 0
    /\ results = <<>>
    /\ calls = <<>>
    /\ ext_probe = <<>>

Init == Start(WalkConfigs)

Next ==
    \/ Construct
    \/ \E hf \in BOOLEAN, hd \in BOOLEAN : Traverse(hf, hd)
    \/ NextRoot
    \/ VisitDir
    \/ VisitFile
    \/ Finish

Spec == Init /\ [][Next]_vars

-----------------------------------------------------------------------------
(* Construction alone, over every shape of filter argument, and the        *)
(* extension filter it compiles called on extensions                       *)

DotTxt == <<DOT>> \o Txt
DotTXT == <<DOT, "T", "X", "T">>
DotDotTxt == <<DOT, DOT>> \o Txt
DotMd == <<DOT>> \o Md
DotMD == <<DOT, "M", "D">>

ExtElements == {PyStr(Txt), PyStr(DotMD), PyStr(DotDotTxt), PyInt(5), PyBytes}

ExtLists == UNION {[1..n -> ExtElements] : n \in 0..MaxItems}

ExtFilterArgs ==
    {PyNone, PyInt(5), PyBytes, PyFunc({DotTxt})}
    \cup {PyStr(x) : x \in {Txt, DotTXT, DotDotTxt, Md, <<>>}}
    \cup {PyList(l) : l \in ExtLists}

FileNameFilterArgs ==
    {PyNone, PatC, PyList(<<>>), PyList(<<PatC, PatSub>>), PyStr(<<"c">>), PyFunc({NameA})}

DirNameFilterArgs == {PyNone, PatSub, PyList(<<PatSub, PyStr(NameS)>>), PyInt(5)}

ExtCandidates == {DotTxt, DotTXT, Txt, DotMd, DotMD, DotDotTxt, <<>>}

CtorConfigs ==
    {Arguments(PyStr(PathDot), l, <<>>, fe, ff, fd, TRUE, TRUE) :
        l \in Levels(-MaxLevel), fe \in ExtFilterArgs,
        ff \in FileNameFilterArgs, fd \in DirNameFilterArgs}

InitCtor == Start(CtorConfigs)

NextCtor ==
    \/ Construct
    \/ \E e \in ExtCandidates : ProbeExt(e)

SpecCtor == InitCtor /\ [][NextCtor]_vars

-----------------------------------------------------------------------------
(* Properties *)

ItemsOfRoot(k) == {i \in 1..Len(results) : results[i].root = k}

RootIsMissing(k) == ~exists(self.paths[k])

RootIsDir(k) == isdir(self.paths[k])

RootIsFile(k) == Resolve(self.paths[k]) \in FsFiles

\* how many directory levels the directory named d lies below the one named r
LevelsBelow(d, r) == Len(Resolve(d)) - Len(Resolve(r))

\* C1: with raise_not_found=True, a root that does not exist raises
\* FileNotFoundError when it is reached, before anything is yielded for it.
C1_MissingRootRaises ==
    \A k \in 1..ri :
        (self.raise_not_found /\ RootIsMissing(k)) =>
            /\ pc = "raised"
            /\ err = "FileNotFoundError"
            /\ ri = k
            /\ ItemsOfRoot(k) = {}

\* C2: with raise_not_found=False, a root that does not exist contributes no
\* result and raises nothing, whatever the filters.
C2_MissingRootYieldsNothing ==
    \A k \in 1..ri :
        (~self.raise_not_found /\ RootIsMissing(k)) =>
            /\ pc # "raised"
            /\ ItemsOfRoot(k) = {}

\* C3: for every directory root and every level L >= 1, every result of the
\* root is for a directory fewer than L levels below it; with level=None (and
\* with any level) the accepted files of every directory within the limit are
\* yielded once the iteration is over.
C3_LevelBoundsDepth ==
    /\ \A i \in 1..Len(results) :
          (RootIsDir(results[i].root) /\ self.level.t = "int") =>
              LevelsBelow(results[i].dir, self.paths[results[i].root]) < self.level.v
    /\ pc = "done" =>
          \A k \in 1..Len(self.paths) :
              RootIsDir(k) =>
                  LET ws == os_walk(self.paths[k])
                  IN  \A n \in 1..Len(ws) :
                        \A j \in 1..Len(ws[n].files) :
                          ( /\ \/ self.level.t = "NoneType"
                               \/ LevelsBelow(ws[n].dir_path, self.paths[k]) < self.level.v
                            /\ CallName(self.f_dir_name, ws[n].dir_path)
                            /\ CallName(self.f_file_name, ws[n].files[j])
                            /\ CallExt(self.f_file_ext, splitext1(ws[n].files[j])) )
                          => \E i \in ItemsOfRoot(k) :
                                /\ results[i].dir = ws[n].dir_path
                                /\ results[i].file = PyStr(ws[n].files[j])

\* C4: with yield_dir=False no result has file-name None, whatever the roots,
\* the level and the filters, and traverse() never calls handler_dir.
C4_NoDirItemWithoutYieldDir ==
    (self.constructed /\ ~self.yield_dir) =>
        /\ \A i \in 1..Len(results) : results[i].file.t # "NoneType"
        /\ \A i \in 1..Len(calls) : calls[i].handler # "dir"

C4_Witness ==
    /\ pc = "done"
    /\ ~self.yield_dir
    /\ handlers.dir
    /\ \E k \in 1..Len(self.paths) : RootIsDir(k) /\ Cardinality(ItemsOfRoot(k)) >= 2
    /\ \E k \in 1..Len(self.paths) : RootIsMissing(k)

\* the handler calls that the results rs ask for, each result in its turn
RECURSIVE CallsFor(_, _)
CallsFor(rs, h) ==
    IF rs = <<>> THEN <<>>
    ELSE LET r    == Head(rs)
             call == IF r.file.t = "str"
                     THEN [handler |-> "file", args |-> <<r.dir, r.file.v>>]
                     ELSE [handler |-> "dir", args |-> <<r.dir>>]
             given == IF r.file.t = "str" THEN h.file ELSE h.dir
         IN  (IF given THEN <<call>> ELSE <<>>) \o CallsFor(Tail(rs), h)

IsFileResult(r) == r.file.t = "str"

\* C5: traverse() calls handler_file(dir, file) once for each result with a
\* file name and handler_dir(dir) once for each result without, in the order
\* of the results; with handler_file alone, one call per file result and none
\* for the directory results; a handler left out raises nothing.
C5_TraverseDispatchesEachResultOnce ==
    /\ calls = CallsFor(results, handlers)
    /\ (handlers.file /\ ~handlers.dir) =>
          /\ Len(calls) = Len(SelectSeq(results, IsFileResult))
          /\ \A i \in 1..Len(calls) : calls[i].handler = "file"
    /\ pc \in {"iter", "done"} => err = "none"

C5_Witness ==
    /\ pc = "done"
    /\ self.yield_dir
    /\ handlers.file
    /\ ~handlers.dir
    /\ \E i, j \in 1..Len(results) :
          /\ i < j
          /\ results[i].file.t = "NoneType"
          /\ results[j].file.t = "str"
    /\ Len(calls) >= 2

\* the number of dots x starts with
LeadingDots(x) ==
    IF \A i \in 1..Len(x) : x[i] = DOT THEN Len(x)
    ELSE (CHOOSE i \in 1..Len(x) : x[i] # DOT /\ \A k \in 1..(i - 1) : x[k] = DOT) - 1

SameLetter(a, b) ==
    \/ a = b
    \/ {a, b} \in {{"t", "T"}, {"x", "X"}, {"m", "M"}, {"d", "D"}}

\* x and y are the same extension: equal, letter case and leading dots apart
SameExtension(x, y) ==
    LET dx == LeadingDots(x)
        dy == LeadingDots(y)
    IN  /\ Len(x) - dx = Len(y) - dy
        /\ \A i \in 1..(Len(x) - dx) : SameLetter(x[dx + i], y[dy + i])

\* C6: the extension filter built from a string accepts an extension iff the
\* two are the same once lower-cased and stripped of leading dots; built from
\* a non-empty collection of strings it accepts iff that holds of one of the
\* elements.  "txt" accepts ".txt", ".TXT" and "txt" and rejects ".md".
C6_ExtensionFilterNormalizes ==
    (pc = "ready" /\ ext_probe # <<>>) =>
        LET f      == cfg.filter_file_extensions
            e      == ext_probe[1]
            answer == ext_probe[2]
        IN  /\ f.t = "str" => (answer <=> SameExtension(e, f.v))
            /\ f.t = "list" =>
                  (answer <=> \E i \in 1..Len(f.v) : SameExtension(e, f.v[i].v))
            /\ f = PyStr(Txt) =>
                  /\ e \in {DotTxt, DotTXT, Txt} => answer
                  /\ e = DotMd => ~answer

C6_Witness ==
    /\ pc = "ready"
    /\ ext_probe = <<DotTXT, TRUE>>
    /\ cfg.filter_file_extensions = PyList(<<PyStr(DotMD), PyStr(Txt)>>)

\* C7: filter_file_extensions given as an empty collection, or as a collection
\* with an element that is not a string, fails the construction with TypeError.
C7_BadExtensionCollectionIsTypeError ==
    LET f == cfg.filter_file_extensions
    IN  (pc # "new" /\ f.t = "list" /\ (f.v = <<>> \/ ~AllOfType(f.v, "str"))) =>
            /\ pc = "failed"
            /\ err = "TypeError"

\* the plain-file root p in two parts: the directory it lies in and its name
BaseName(p) == LET parts == SplitAt(p, SEP) IN parts[Len(parts)]

ContainingDir(p) ==
    LET n == Len(p) - Len(BaseName(p))
    IN  IF n <= 1 THEN SubSeq(p, 1, n) ELSE SubSeq(p, 1, n - 1)

\* C8: a single root that is a plain file yields exactly (containing directory,
\* base name) if the dir-name filter accepts the directory, the file-name
\* filter the base name and the extension filter its extension, else nothing.
C8_PlainFileRoot ==
    (pc = "done" /\ Len(self.paths) = 1 /\ RootIsFile(1)) =>
        LET p    == self.paths[1]
            dir  == ContainingDir(p)
            base == BaseName(p)
        IN  results =
              IF /\ CallName(self.f_dir_name, dir)
                 /\ CallName(self.f_file_name, base)
                 /\ CallExt(self.f_file_ext, splitext1(base))
              THEN <<[root |-> 1, dir |-> dir, file |-> PyStr(base)]>>
              ELSE <<>>

C8_Witness ==
    /\ pc = "done"
    /\ self.paths = <<CwdPath \o <<SEP>> \o NameA>>
    /\ cfg.filter_file_extensions = PyStr(Txt)
    /\ results = <<[root |-> 1, dir |-> CwdPath, file |-> PyStr(NameA)]>>

\* C9: a level <= 0 fails the construction, so that no object with such a
\* level exists and no traversal starts; None and every level >= 1 pass.
C9_LevelIsValidated ==
    /\ (cfg.level.t = "int" /\ cfg.level.v <= 0) =>
          /\ pc \in {"new", "failed"}
          /\ ~self.constructed
          /\ pc = "failed" => err = "AssertionError"
    /\ (cfg.level.t = "NoneType" \/ cfg.level.v >= 1) =>
          /\ err # "AssertionError"
          /\ pc # "new" => (self.constructed /\ self.level = cfg.level)

C9_Witness ==
    /\ pc = "failed"
    /\ cfg.level = PyInt(0)
    /\ err = "AssertionError"

\* C10: at the end of the walk of a directory root, a directory within the
\* depth limit has been yielded (yield_dir on) iff the dir-name filter accepts
\* its own path, and each of its files has been yielded iff the directory and
\* the file are accepted, whatever the filter said of the directories above.
C10_DirFilterDoesNotPrune ==
    pc = "done" =>
        \A k \in 1..Len(self.paths) :
            RootIsDir(k) =>
                LET ws == os_walk(self.paths[k])
                IN  \A n \in 1..Len(ws) :
                      LET d == ws[n].dir_path
                      IN  ( \/ self.level.t = "NoneType"
                            \/ LevelsBelow(d, self.paths[k]) < self.level.v ) =>
                          /\ (\E i \in ItemsOfRoot(k) : results[i] = DirItem(k, d))
                                <=> (self.yield_dir /\ CallName(self.f_dir_name, d))
                          /\ \A j \in 1..Len(ws[n].files) :
                                LET f == ws[n].files[j]
                                IN  (\E i \in ItemsOfRoot(k) : results[i] = FileItem(k, d, f))
                                      <=> /\ CallName(self.f_dir_name, d)
                                          /\ CallName(self.f_file_name, f)
                                          /\ CallExt(self.f_file_ext, splitext1(f))

C10_Witness ==
    /\ pc = "done"
    /\ self.paths = <<PathDot>>
    /\ cfg.filter_dir_name = PatSub
    /\ self.yield_dir
    /\ \E i \in 1..Len(results) : results[i] = DirItem(1, PathDotS \o <<SEP>> \o NameD)
    /\ \E i \in 1..Len(results) :
          results[i] = FileItem(1, PathDotS \o <<SEP>> \o NameD, NameE)
    /\ \A i \in 1..Len(results) : results[i].dir # PathDot

=============================================================================
